---- MODULE Spec2Model ----
(***************************************************************************)
(* Entity/component simulation kernel of octo-ink:                         *)
(*   - Entity and EntityManager (src/src/entities)                         *)
(*   - ObjectPool (src/src/utils/object_pool.py)                           *)
(*   - SpatialGrid (src/src/utils/spatial_grid.py)                         *)
(* Each subsystem has its own specification over the shared variables:     *)
(*   Spec          the entity manager driven by collaborator calls, ticks  *)
(*   PoolSpec      one ObjectPool driven by get / release / release_all    *)
(*   GridSpec      one SpatialGrid rebuilt from a list of entities         *)
(*   GridCtorSpec  the SpatialGrid constructor with any cell size          *)
(*   EntitySpec    one Entity and its component instances                  *)
(*   ProjSpec      the ProjectilePool and the manager its factory adds to  *)
(***************************************************************************)
EXTENDS Integers, Sequences, FiniteSets, TLC

\* ---------------------------------------------------------------- bounds
NumEntities == 2
NumTags == 1
MaxPendingRemoves == 1
MaxInitialSize == 2
MaxObjects == 4
\* SpatialGrid(width, height, cell_size) and the coordinates entities take
WorldWidth == 2
WorldHeight == 2
CellSize == 2
NegCoord == 3
MaxCoord == 5
MaxRowCoord == 3
MaxExtent == 2
MinCellSize == 1
NumComps == 3
NumOwners == 1
NumColors == 2
MaxPerPool == 2
MaxPoolInitial == 1
MaxTarget == 1

Ents == 1..NumEntities
TagNames == <<"enemy", "projectile", "ship">>
Tags == {TagNames[i] : i \in 1..NumTags}
CompTypes == {"transform", "collision"}
\* the component type the manager's collaborators attach and detach
ManagedCompTypes == {"transform"}

Range(s) == {s[i] : i \in 1..Len(s)}

\* pool objects are numbered in the order the factory made them; 0 is an object
\* the pool never made
Objs == 1..MaxObjects
Foreign == 0
NoCall == [op |-> "none", obj |-> Foreign, outcome |-> "none"]

VARIABLES
    \* EntityManager fields
    entities,              \* dict id -> Entity, as the sequence of its keys in insertion order
    entities_to_add,       \* pending-add list
    entities_to_remove,    \* pending-remove id list
    tag_index,             \* dict tag -> set of ids (a function on the tags that are keys)
    \* Entity fields, per entity
    tags, active, marked_for_destruction, components,
    \* position of EntityManager.update
    pc, snapshot, idx,
    \* observations of the current update(dt) call
    update_count,          \* how often Entity.update was invoked on each entity
    turn_eligible,         \* entities that were active and unmarked when their turn came
    flushed,               \* entities inserted by the add-flush of this call
    flushed_tags,          \* the tags each of them carried at the flush
    flushed_late,          \* those of them that had been submitted during an update pass
    submitted_in_pass,     \* pending entities that were handed to add_entity during a pass
    remove_requested,      \* tracked ids a collaborator passed to remove_entity in this call
    self_destroyed,        \* entities whose own update called destroy()
    raised,                \* a component's update raised an exception in this call
    marked_at_turn,        \* entities that were marked when their own turn ended
    removed_pending        \* pending entities whose id was passed to remove_entity,
                           \* until the pass after their add-flush takes its first turn

VARIABLES
    \* ObjectPool fields
    active_objects, inactive_objects, peak_active_count, total_created,
    initial_size,          \* the constructor's argument
    factory_calls,         \* calls of factory_func; the n-th call makes object n
    reset_count,           \* per object: calls of reset_func since get last returned it
    last_call, prev_call   \* the latest two calls on the pool: operation, object, outcome

VARIABLES
    position,              \* per entity: transform.position as <<x, y>>
    extent,                \* per entity: <<collision.width, collision.height>>
    \* SpatialGrid fields
    grid,                  \* dict (col, row) -> list of entities
    entity_cells,          \* dict entity id -> set of (col, row)
    cell_size,             \* the constructor's cell_size argument
    grid_ctor,             \* SpatialGrid(...): "none" not called, "built", or "raised"
    grid_fresh             \* no entity has changed since SpatialGrid.update ran

VARIABLES
    \* Entity and Component fields, at the level of component instances
    comp_map,              \* per entity: Entity.components, as its values in insertion order
    comp_entity,           \* per component: Component.entity (0 for None)
    enabled,               \* per component: Component.enabled
    ent_call,              \* the latest call, if it was add_component, remove_component
                           \* or destroy: entity, result, the hooks and writes in order,
                           \* and whether the entity was already marked for destruction
    \* position of Entity.update
    epc, ecur, esnap, eidx,
    comp_updates,          \* how often update(dt) ran on each component in this call
    enabled_at_turn        \* snapshot components that were enabled when their turn came

VARIABLES
    \* ProjectilePool fields and the projectiles its factories have made
    pools,                 \* dict ink colour -> ObjectPool (empty before initialize)
    proj,                  \* per projectile: the fields of the InkSlime entity
    pp_call                \* the latest ProjectilePool call: arguments, result, outcome

emvars == <<entities, entities_to_add, entities_to_remove, tag_index>>
entvars == <<tags, active, marked_for_destruction, components>>
posvars == <<pc, snapshot, idx>>
obsvars == <<update_count, turn_eligible, flushed, flushed_tags, flushed_late,
             submitted_in_pass, remove_requested, self_destroyed, raised,
             marked_at_turn, removed_pending>>
poolvars == <<active_objects, inactive_objects, peak_active_count, total_created,
              initial_size, factory_calls, reset_count, last_call, prev_call>>
managervars == <<emvars, entvars, posvars, obsvars>>
gridvars == <<position, extent, grid, entity_cells, cell_size, grid_ctor, grid_fresh>>
compvars == <<comp_map, comp_entity, enabled, ent_call, epc, ecur, esnap, eidx,
              comp_updates, enabled_at_turn>>
projvars == <<pools, proj, pp_call>>
vars == <<managervars, poolvars, gridvars, compvars, projvars>>

\* ------------------------------------------------- EntityManager queries
GetEntity(id) == IF id \in Range(entities) THEN id ELSE 0

GetEntitiesWithTag(t) ==
    LET ids == IF t \in DOMAIN tag_index THEN tag_index[t] ELSE {}
    IN {id \in ids : id \in Range(entities)}

GetComponent(e, c) == IF c \in components[e] THEN c ELSE "None"

\* ------------------------------------------------------- flush operators
IndexAdd(index, ts, e) ==
    [t \in DOMAIN index \cup ts |->
        IF t \in ts
        THEN (IF t \in DOMAIN index THEN index[t] ELSE {}) \cup {e}
        ELSE index[t]]

IndexDiscard(index, ts, e) ==
    LET after == [t \in DOMAIN index |-> IF t \in ts THEN index[t] \ {e} ELSE index[t]]
        keep == {t \in DOMAIN index : ~(t \in ts /\ after[t] = {})}
    IN [t \in keep |-> after[t]]

RemoveKey(s, e) == SelectSeq(s, LAMBDA x : x # e)

\* an add-flush that inserts the entities and forgets their tags
RECURSIVE ProcessEntityAdditions_NoIndex(_, _, _)
ProcessEntityAdditions_NoIndex(pending, ents, index) ==
    IF pending = <<>>
    THEN [entities |-> ents, tag_index |-> index]
    ELSE LET e == Head(pending)
         IN ProcessEntityAdditions_NoIndex(
                Tail(pending),
                IF e \in Range(ents) THEN ents ELSE Append(ents, e),
                index)

RECURSIVE ProcessEntityAdditions(_, _, _)
ProcessEntityAdditions(pending, ents, index) ==
    IF pending = <<>>
    THEN [entities |-> ents, tag_index |-> index]
    ELSE LET e == Head(pending)
         IN ProcessEntityAdditions(
                Tail(pending),
                IF e \in Range(ents) THEN ents ELSE Append(ents, e),
                IndexAdd(index, tags[e], e))

RECURSIVE ProcessEntityRemovals(_, _, _)
ProcessEntityRemovals(pending, ents, index) ==
    IF pending = <<>>
    THEN [entities |-> ents, tag_index |-> index]
    ELSE LET id == Head(pending)
         IN IF id \in Range(ents)
            THEN ProcessEntityRemovals(Tail(pending), RemoveKey(ents, id),
                                       IndexDiscard(index, tags[id], id))
            ELSE ProcessEntityRemovals(Tail(pending), ents, index)

\* -------------------------------------------------------------- Init
\* no pool has been constructed
PoolUnused ==
    /\ active_objects = <<>>
    /\ inactive_objects = <<>>
    /\ peak_active_count = 0
    /\ total_created = 0
    /\ initial_size = 0
    /\ factory_calls = 0
    /\ reset_count = [o \in {Foreign} \cup Objs |-> 0]
    /\ last_call = NoCall
    /\ prev_call = NoCall

\* no grid has been built; entities sit at the origin with a unit box
GridUnused ==
    /\ position = [e \in Ents |-> <<0, 0>>]
    /\ extent = [e \in Ents |-> <<1, 1>>]
    /\ grid = <<>>
    /\ entity_cells = <<>>
    /\ cell_size = CellSize
    /\ grid_ctor = "none"
    /\ grid_fresh = FALSE

Comps == 1..NumComps
NoComp == 0
NoEntCall == [op |-> "none", e |-> 0, ret |-> NoComp, log |-> <<>>, again |-> FALSE]

\* no component has been attached, no Entity.update is running
CompsUnused ==
    /\ comp_map = [e \in Ents |-> <<>>]
    /\ comp_entity = [c \in Comps |-> 0]
    /\ enabled = [c \in Comps |-> TRUE]
    /\ ent_call = NoEntCall
    /\ epc = "idle"
    /\ ecur = 0
    /\ esnap = <<>>
    /\ eidx = 1
    /\ comp_updates = [c \in Comps |-> 0]
    /\ enabled_at_turn = {}

\* the keys initialize() creates sub-pools for, and a colour that is no key
InkColors == <<"dark_blue", "purple", "green", "red", "rainbow">>
Colors == {InkColors[i] : i \in 1..NumColors}
UnknownColor == "black"
DefaultColor == "dark_blue"

\* the n-th projectile made by the factory of sub-pool k is <<k, n>>; Outsider
\* is an ink slime that no sub-pool made
Projs == Colors \X (1..MaxPerPool)
Outsider == <<DefaultColor, Foreign>>
NoProj == <<UnknownColor, Foreign>>
OffScreen == <<-1000, -1000>>
NoPPCall == [op |-> "none", color |-> UnknownColor, pos |-> OffScreen, p |-> NoProj,
             pool |-> UnknownColor, outcome |-> "none"]

\* a projectile as _create_projectile leaves it
NewProjectile(k) ==
    [made |-> TRUE, active |-> FALSE, pos |-> OffScreen, vel |-> "zero",
     destroyed |-> FALSE, ink_color |-> k]

\* ProjectilePool(): no sub-pool, no projectile
ProjUnused ==
    /\ pools = <<>>
    /\ proj = [p \in Projs |-> [NewProjectile(p[1]) EXCEPT !.made = FALSE]]
    /\ pp_call = NoPPCall

ManagerInit ==
    /\ entities = <<>>
    /\ entities_to_add = <<>>
    /\ entities_to_remove = <<>>
    /\ tag_index = <<>>
    /\ tags = [e \in Ents |-> {}]
    /\ active = [e \in Ents |-> TRUE]
    /\ marked_for_destruction = [e \in Ents |-> FALSE]
    /\ components = [e \in Ents |-> {}]
    /\ pc = "idle"
    /\ snapshot = <<>>
    /\ idx = 1
    /\ update_count = [e \in Ents |-> 0]
    /\ turn_eligible = {}
    /\ flushed = {}
    /\ flushed_tags = [e \in Ents |-> {}]
    /\ flushed_late = {}
    /\ submitted_in_pass = {}
    /\ remove_requested = {}
    /\ self_destroyed = {}
    /\ raised = FALSE
    /\ marked_at_turn = {}
    /\ removed_pending = {}

Init == ManagerInit /\ PoolUnused /\ GridUnused /\ CompsUnused /\ ProjUnused

\* ------------------------------------------- calls made by collaborators
\* Collaborator code runs between ticks and inside Entity.update.
CallAllowed == pc \in {"idle", "returned", "raised", "in_update"}

\* update(dt) has returned or was left by an exception
CallEnded == pc \in {"returned", "raised"}

Current == snapshot[idx]

\* The observations describe one update(dt) call: they are kept while the call
\* runs and until the first call after it returned.
ObsCleared ==
    /\ update_count' = [e \in Ents |-> 0]
    /\ turn_eligible' = {}
    /\ flushed' = {}
    /\ flushed_tags' = [e \in Ents |-> {}]
    /\ flushed_late' = {}
    /\ remove_requested' = {}
    /\ self_destroyed' = {}
    /\ raised' = FALSE
    /\ marked_at_turn' = {}

\* a change of an entity's fields leaves the grid as it was built
GridStale ==
    /\ grid_fresh' = FALSE
    /\ UNCHANGED <<position, extent, grid, entity_cells, cell_size, grid_ctor>>

\* remove_entity calls on pending entities are remembered over the add-flush
RemovedPendingAfter(more) ==
    removed_pending' = (IF CallEnded THEN {} ELSE removed_pending) \cup more

\* the first call after update(dt) returned ends the observation of that call
LeaveReturned ==
    /\ pc' = IF CallEnded THEN "idle" ELSE pc
    /\ IF CallEnded
       THEN snapshot' = <<>> /\ idx' = 1
       ELSE UNCHANGED <<snapshot, idx>>

AfterCall ==
    /\ LeaveReturned
    /\ RemovedPendingAfter({})
    /\ UNCHANGED submitted_in_pass
    /\ IF CallEnded THEN ObsCleared
       ELSE UNCHANGED <<update_count, turn_eligible, flushed, flushed_tags, flushed_late,
                        remove_requested, self_destroyed, raised, marked_at_turn>>

\* an add_entity that inserts into the table at once
AddEntity_Immediate(e) ==
    /\ UNCHANGED <<poolvars, gridvars, compvars, projvars>>
    /\ CallAllowed
    /\ e \notin Range(entities) /\ e \notin Range(entities_to_add)
    /\ entities' = Append(entities, e)
    /\ tag_index' = IndexAdd(tag_index, tags[e], e)
    /\ LeaveReturned
    /\ RemovedPendingAfter({})
    /\ submitted_in_pass' = IF pc = "in_update" THEN submitted_in_pass \cup {e}
                            ELSE submitted_in_pass
    /\ IF CallEnded THEN ObsCleared
       ELSE UNCHANGED <<update_count, turn_eligible, flushed, flushed_tags, flushed_late,
                        remove_requested, self_destroyed, raised, marked_at_turn>>
    /\ UNCHANGED <<entities_to_add, entities_to_remove, entvars>>

AddEntity(e) ==
    /\ UNCHANGED <<poolvars, gridvars, compvars, projvars>>
    /\ CallAllowed
    /\ e \notin Range(entities) /\ e \notin Range(entities_to_add)
    /\ entities_to_add' = Append(entities_to_add, e)
    /\ LeaveReturned
    /\ RemovedPendingAfter({})
    /\ submitted_in_pass' = IF pc = "in_update" THEN submitted_in_pass \cup {e}
                            ELSE submitted_in_pass
    /\ IF CallEnded THEN ObsCleared
       ELSE UNCHANGED <<update_count, turn_eligible, flushed, flushed_tags, flushed_late,
                        remove_requested, self_destroyed, raised, marked_at_turn>>
    /\ UNCHANGED <<entities, entities_to_remove, tag_index, entvars>>

\* a remove_entity that queues the id without looking it up in the table
RemoveEntityQueue_Unchecked(id) == Append(entities_to_remove, id)

RemoveEntityQueue(id) ==
    IF id \in Range(entities) THEN Append(entities_to_remove, id) ELSE entities_to_remove

RemoveEntity(id) ==
    /\ UNCHANGED <<poolvars, gridvars, compvars, projvars>>
    /\ CallAllowed
    /\ Len(entities_to_remove) < MaxPendingRemoves
    /\ entities_to_remove' = RemoveEntityQueue(id)
    /\ LeaveReturned
    /\ RemovedPendingAfter(IF id \in Range(entities_to_add) /\ id \notin Range(entities)
                           THEN {id} ELSE {})
    /\ IF pc = "in_update"
       THEN /\ remove_requested' = IF id \in Range(entities)
                                   THEN remove_requested \cup {id} ELSE remove_requested
            /\ UNCHANGED <<update_count, turn_eligible, flushed, flushed_tags, flushed_late,
                           submitted_in_pass, self_destroyed, raised, marked_at_turn>>
       ELSE /\ UNCHANGED submitted_in_pass
            /\ IF CallEnded THEN ObsCleared
               ELSE UNCHANGED <<update_count, turn_eligible, flushed, flushed_tags,
                                flushed_late, remove_requested, self_destroyed, raised, marked_at_turn>>
    /\ UNCHANGED <<entities, entities_to_add, tag_index, entvars>>

AddTag(e, t) ==
    /\ UNCHANGED <<poolvars, gridvars, compvars, projvars>>
    /\ CallAllowed
    /\ tags' = [tags EXCEPT ![e] = @ \cup {t}]
    /\ AfterCall
    /\ UNCHANGED <<emvars, active, marked_for_destruction, components>>

RemoveTag(e, t) ==
    /\ UNCHANGED <<poolvars, gridvars, compvars, projvars>>
    /\ CallAllowed
    /\ tags' = [tags EXCEPT ![e] = @ \ {t}]
    /\ AfterCall
    /\ UNCHANGED <<emvars, active, marked_for_destruction, components>>

AddComponent(e, c) ==
    /\ UNCHANGED <<poolvars, compvars, projvars>> /\ GridStale
    /\ CallAllowed
    /\ components' = [components EXCEPT ![e] = @ \cup {c}]
    /\ AfterCall
    /\ UNCHANGED <<emvars, tags, active, marked_for_destruction>>

RemoveComponent(e, c) ==
    /\ UNCHANGED <<poolvars, compvars, projvars>> /\ GridStale
    /\ CallAllowed
    /\ components' = [components EXCEPT ![e] = @ \ {c}]
    /\ AfterCall
    /\ UNCHANGED <<emvars, tags, active, marked_for_destruction>>

SetActive(e, b) ==
    /\ UNCHANGED <<poolvars, compvars, projvars>> /\ GridStale
    /\ CallAllowed
    /\ active' = [active EXCEPT ![e] = b]
    /\ AfterCall
    /\ UNCHANGED <<emvars, tags, marked_for_destruction, components>>

\* a destroy() that also drops the entity from the manager's table
Destroy_Immediate(e) ==
    /\ UNCHANGED <<poolvars, compvars, projvars>> /\ GridStale
    /\ CallAllowed
    /\ marked_for_destruction' = [marked_for_destruction EXCEPT ![e] = TRUE]
    /\ active' = [active EXCEPT ![e] = FALSE]
    /\ components' = [components EXCEPT ![e] = {}]
    /\ entities' = RemoveKey(entities, e)
    /\ LeaveReturned
    /\ RemovedPendingAfter({})
    /\ UNCHANGED submitted_in_pass
    /\ IF CallEnded THEN ObsCleared
       ELSE UNCHANGED <<update_count, turn_eligible, flushed, flushed_tags, flushed_late,
                        remove_requested, self_destroyed, raised, marked_at_turn>>
    /\ UNCHANGED <<entities_to_add, entities_to_remove, tag_index, tags>>

Destroy(e) ==
    /\ UNCHANGED <<poolvars, compvars, projvars>> /\ GridStale
    /\ CallAllowed
    /\ marked_for_destruction' = [marked_for_destruction EXCEPT ![e] = TRUE]
    /\ active' = [active EXCEPT ![e] = FALSE]
    /\ components' = [components EXCEPT ![e] = {}]
    /\ LeaveReturned
    /\ RemovedPendingAfter({})
    /\ IF pc = "in_update"
       THEN /\ self_destroyed' = IF e = Current THEN self_destroyed \cup {e}
                                 ELSE self_destroyed
            /\ UNCHANGED <<update_count, turn_eligible, flushed, flushed_tags, flushed_late,
                           submitted_in_pass, remove_requested, raised, marked_at_turn>>
       ELSE /\ UNCHANGED submitted_in_pass
            /\ IF CallEnded THEN ObsCleared
               ELSE UNCHANGED <<update_count, turn_eligible, flushed, flushed_tags,
                                flushed_late, remove_requested, self_destroyed, raised, marked_at_turn>>
    /\ UNCHANGED <<emvars, tags>>

\* ------------------------------------------------ EntityManager.update
ShouldUpdate(e) == active[e] /\ ~marked_for_destruction[e]

\* the entity whose turn ends is noted if it is marked at that moment
MarkedAtTurn(e) ==
    marked_at_turn' = IF marked_for_destruction[e] THEN marked_at_turn \cup {e}
                      ELSE marked_at_turn

\* a marked check that never queues the entity
MarkedCheck_Never(e) == entities_to_remove

MarkedCheck(e) ==
    IF marked_for_destruction[e] THEN RemoveEntityQueue(e) ELSE entities_to_remove

\* update(dt) is entered: the add-flush, then the snapshot of the table
UpdateStart ==
    /\ UNCHANGED <<poolvars, gridvars, compvars, projvars>>
    /\ pc \in {"idle", "returned", "raised"}
    /\ LET r == ProcessEntityAdditions(entities_to_add, entities, tag_index)
       IN /\ entities' = r.entities
          /\ tag_index' = r.tag_index
          /\ snapshot' = r.entities
    /\ entities_to_add' = <<>>
    /\ idx' = 1
    /\ pc' = "pass"
    /\ update_count' = [e \in Ents |-> 0]
    /\ turn_eligible' = {}
    /\ flushed' = Range(entities_to_add)
    /\ flushed_tags' = [e \in Ents |-> IF e \in Range(entities_to_add) THEN tags[e] ELSE {}]
    /\ flushed_late' = submitted_in_pass
    /\ submitted_in_pass' = {}
    /\ remove_requested' = {}
    /\ self_destroyed' = {}
    /\ raised' = FALSE
    /\ marked_at_turn' = {}
    /\ UNCHANGED <<entities_to_remove, entvars, removed_pending>>

\* the pass goes on: what was remembered for the add-flush is dropped
RemovedPendingTurn == removed_pending' = IF idx = 1 THEN {} ELSE removed_pending

\* the turn of snapshot[idx] starts: Entity.update is entered
BeginTurn ==
    /\ UNCHANGED <<poolvars, gridvars, compvars, projvars>>
    /\ pc = "pass" /\ idx <= Len(snapshot)
    /\ ShouldUpdate(Current)
    /\ pc' = "in_update"
    /\ update_count' = [update_count EXCEPT ![Current] = IF @ < 2 THEN @ + 1 ELSE @]
    /\ turn_eligible' = IF active[Current] /\ ~marked_for_destruction[Current]
                        THEN turn_eligible \cup {Current} ELSE turn_eligible
    /\ RemovedPendingTurn
    /\ UNCHANGED <<emvars, entvars, snapshot, idx, flushed, flushed_tags, flushed_late,
                   submitted_in_pass, remove_requested, self_destroyed, raised, marked_at_turn>>

\* Entity.update returned: the marked check, then the next entity
EndTurn ==
    /\ UNCHANGED <<poolvars, gridvars, compvars, projvars>>
    /\ pc = "in_update"
    /\ entities_to_remove' = MarkedCheck(Current)
    /\ MarkedAtTurn(Current)
    /\ idx' = idx + 1
    /\ pc' = "pass"
    /\ UNCHANGED <<entities, entities_to_add, tag_index, entvars, snapshot, update_count,
                   turn_eligible, flushed, flushed_tags, flushed_late, submitted_in_pass,
                   remove_requested, self_destroyed, raised, removed_pending>>

\* an update() that swallows the exception and goes on with the next entity
ComponentRaises_Caught ==
    /\ UNCHANGED <<poolvars, gridvars, compvars, projvars>>
    /\ pc = "in_update"
    /\ Len(entities_to_remove) <= MaxPendingRemoves
    /\ raised' = TRUE
    /\ pc' = "pass"
    /\ idx' = idx + 1
    /\ UNCHANGED <<emvars, entvars, snapshot, update_count, turn_eligible, flushed,
                   flushed_tags, flushed_late, submitted_in_pass, remove_requested,
                   self_destroyed, marked_at_turn, removed_pending>>

\* a component's update(dt) raises: neither Entity.update nor
\* EntityManager.update has a handler, so the call is left at this point and
\* the pending removals stay queued (followed while the queue is short)
ComponentRaises ==
    /\ UNCHANGED <<poolvars, gridvars, compvars, projvars>>
    /\ pc = "in_update"
    /\ Len(entities_to_remove) <= MaxPendingRemoves
    /\ raised' = TRUE
    /\ pc' = "raised"
    /\ UNCHANGED <<emvars, entvars, snapshot, idx, update_count, turn_eligible, flushed,
                   flushed_tags, flushed_late, submitted_in_pass, remove_requested,
                   self_destroyed, marked_at_turn, removed_pending>>

\* an entity that is inactive or marked is not updated, only checked
SkipTurn ==
    /\ UNCHANGED <<poolvars, gridvars, compvars, projvars>>
    /\ pc = "pass" /\ idx <= Len(snapshot)
    /\ ~ShouldUpdate(Current)
    /\ entities_to_remove' = MarkedCheck(Current)
    /\ idx' = idx + 1
    /\ turn_eligible' = IF active[Current] /\ ~marked_for_destruction[Current]
                        THEN turn_eligible \cup {Current} ELSE turn_eligible
    /\ UNCHANGED <<entities, entities_to_add, tag_index, entvars, pc, snapshot,
                   update_count, flushed, flushed_tags, flushed_late, submitted_in_pass,
                   remove_requested, self_destroyed, raised>>
    /\ MarkedAtTurn(Current)
    /\ RemovedPendingTurn

\* the snapshot is exhausted: the remove-flush, then update(dt) returns
UpdateFinish ==
    /\ UNCHANGED <<poolvars, gridvars, compvars, projvars>>
    /\ pc = "pass" /\ idx > Len(snapshot)
    /\ LET r == ProcessEntityRemovals(entities_to_remove, entities, tag_index)
       IN /\ entities' = r.entities
          /\ tag_index' = r.tag_index
    /\ entities_to_remove' = <<>>
    /\ pc' = "returned"
    /\ RemovedPendingTurn
    /\ UNCHANGED <<entities_to_add, entvars, snapshot, idx, update_count, turn_eligible,
                   flushed, flushed_tags, flushed_late, submitted_in_pass, remove_requested,
                   self_destroyed, raised, marked_at_turn>>

Next ==
    \/ \E e \in Ents : AddEntity(e)
    \/ \E e \in Ents : RemoveEntity(e)
    \/ \E e \in Ents, t \in Tags : AddTag(e, t)
    \/ \E e \in Ents, t \in Tags : RemoveTag(e, t)
    \/ \E e \in Ents, c \in ManagedCompTypes : AddComponent(e, c)
    \/ \E e \in Ents, c \in ManagedCompTypes : RemoveComponent(e, c)
    \/ \E e \in Ents, b \in BOOLEAN : SetActive(e, b)
    \/ \E e \in Ents : Destroy(e)
    \/ UpdateStart
    \/ BeginTurn
    \/ EndTurn
    \/ ComponentRaises
    \/ SkipTurn
    \/ UpdateFinish

Spec == Init /\ [][Next]_vars

\* ============================================================ ObjectPool
\* The fields of the pool as one value, with what the call returned.
PoolState ==
    [active |-> active_objects, inactive |-> inactive_objects,
     peak |-> peak_active_count, total |-> total_created,
     factory |-> factory_calls, reset |-> reset_count,
     ret |-> Foreign, outcome |-> "none"]

\* list.remove(x): the first element equal to x is removed
RECURSIVE RemoveFirst(_, _)
RemoveFirst(s, x) ==
    IF s = <<>> THEN <<>>
    ELSE IF Head(s) = x THEN Tail(s)
    ELSE <<Head(s)>> \o RemoveFirst(Tail(s), x)

Count(s, x) == Cardinality({i \in 1..Len(s) : s[i] = x})

\* the reset counter is observed up to 2
Bump(n) == IF n < 2 THEN n + 1 ELSE n

\* a peak that is set to the present number of active objects by every get()
UpdatePeak_Current(st) == [st EXCEPT !.peak = Len(st.active)]

UpdatePeak(st) ==
    IF Len(st.active) > st.peak THEN [st EXCEPT !.peak = Len(st.active)] ELSE st

\* a get() that reads the last inactive object and leaves it in the inactive list
Get_NoPop(st) ==
    UpdatePeak(
        IF st.inactive = <<>>
        THEN LET new == st.factory + 1
             IN [st EXCEPT !.factory = new, !.total = @ + 1,
                           !.active = Append(@, new),
                           !.reset = [@ EXCEPT ![new] = 0],
                           !.ret = new, !.outcome = "created"]
        ELSE LET new == st.inactive[Len(st.inactive)]
             IN [st EXCEPT !.active = Append(@, new),
                           !.reset = [@ EXCEPT ![new] = 0],
                           !.ret = new, !.outcome = "reused"])

\* a get() that takes the oldest inactive object instead of the newest
Get_PopFront(st) ==
    UpdatePeak(
        IF st.inactive = <<>>
        THEN LET new == st.factory + 1
             IN [st EXCEPT !.factory = new, !.total = @ + 1,
                           !.active = Append(@, new),
                           !.reset = [@ EXCEPT ![new] = 0],
                           !.ret = new, !.outcome = "created"]
        ELSE LET new == Head(st.inactive)
             IN [st EXCEPT !.inactive = Tail(@),
                           !.active = Append(@, new),
                           !.reset = [@ EXCEPT ![new] = 0],
                           !.ret = new, !.outcome = "reused"])

\* a get() that forgets to count the object it creates
Get_NoCount(st) ==
    UpdatePeak(
        IF st.inactive = <<>>
        THEN LET new == st.factory + 1
             IN [st EXCEPT !.factory = new,
                           !.active = Append(@, new),
                           !.reset = [@ EXCEPT ![new] = 0],
                           !.ret = new, !.outcome = "created"]
        ELSE LET new == st.inactive[Len(st.inactive)]
             IN [st EXCEPT !.inactive = SubSeq(@, 1, Len(@) - 1),
                           !.active = Append(@, new),
                           !.reset = [@ EXCEPT ![new] = 0],
                           !.ret = new, !.outcome = "reused"])

Get(st) ==
    UpdatePeak(
        IF st.inactive = <<>>
        THEN LET new == st.factory + 1
             IN [st EXCEPT !.factory = new, !.total = @ + 1,
                           !.active = Append(@, new),
                           !.reset = [@ EXCEPT ![new] = 0],
                           !.ret = new, !.outcome = "created"]
        ELSE LET new == st.inactive[Len(st.inactive)]
             IN [st EXCEPT !.inactive = SubSeq(@, 1, Len(@) - 1),
                           !.active = Append(@, new),
                           !.reset = [@ EXCEPT ![new] = 0],
                           !.ret = new, !.outcome = "reused"])

\* a release() without the membership test
Release_Unchecked(st, obj) ==
    [st EXCEPT !.active = RemoveFirst(@, obj),
               !.reset = [@ EXCEPT ![obj] = Bump(@)],
               !.inactive = Append(@, obj),
               !.ret = obj, !.outcome = "released"]

Release(st, obj) ==
    IF obj \in Range(st.active)
    THEN [st EXCEPT !.active = RemoveFirst(@, obj),
                    !.reset = [@ EXCEPT ![obj] = Bump(@)],
                    !.inactive = Append(@, obj),
                    !.ret = obj, !.outcome = "released"]
    ELSE [st EXCEPT !.ret = obj, !.outcome = "ignored"]

\* release_all(): release() on each object of a copy of the active list
RECURSIVE ReleaseEach(_, _)
ReleaseEach(st, copy) ==
    IF copy = <<>> THEN [st EXCEPT !.ret = Foreign, !.outcome = "all"]
    ELSE ReleaseEach(Release(st, Head(copy)), Tail(copy))

ReleaseAll(st) == ReleaseEach(st, st.active)

\* ObjectPool(factory_func, reset_func, initial_size)
PoolInit ==
    /\ ManagerInit
    /\ GridUnused
    /\ CompsUnused
    /\ ProjUnused
    /\ \E n \in 0..MaxInitialSize :
          /\ initial_size = n
          /\ inactive_objects = [i \in 1..n |-> i]
          /\ factory_calls = n
          /\ total_created = n
    /\ active_objects = <<>>
    /\ peak_active_count = 0
    /\ reset_count = [o \in {Foreign} \cup Objs |-> 0]
    /\ last_call = NoCall
    /\ prev_call = NoCall

Store(st, op) ==
    /\ active_objects' = st.active
    /\ inactive_objects' = st.inactive
    /\ peak_active_count' = st.peak
    /\ total_created' = st.total
    /\ factory_calls' = st.factory
    /\ reset_count' = st.reset
    /\ last_call' = [op |-> op, obj |-> st.ret, outcome |-> st.outcome]
    /\ prev_call' = last_call
    /\ UNCHANGED <<initial_size, managervars, gridvars, compvars, projvars>>

PoolGet ==
    /\ inactive_objects = <<>> => factory_calls < MaxObjects
    /\ Store(Get(PoolState), "get")

\* obj is an object the factory has made, or one the pool never made
PoolRelease(obj) ==
    /\ obj = Foreign \/ obj <= factory_calls
    /\ Store(Release(PoolState, obj), "release")

PoolReleaseAll ==
    /\ Store(ReleaseAll(PoolState), "release_all")

PoolNext ==
    \/ PoolGet
    \/ \E obj \in {Foreign} \cup Objs : PoolRelease(obj)
    \/ PoolReleaseAll

PoolSpec == PoolInit /\ [][PoolNext]_vars

\* ======================================================== ProjectilePool
Directions == {"zero", "unit"}
Targets == (1..MaxTarget) \X {1}

\* ObjectPool(factory_func, reset_func, initial_size = n) as a value
NewPool(n) ==
    [active |-> <<>>, inactive |-> [i \in 1..n |-> i], peak |-> 0, total |-> n,
     factory |-> n, reset |-> [o \in {Foreign} \cup Objs |-> 0],
     ret |-> Foreign, outcome |-> "none"]

\* the sub-pool as it is kept between calls: the fields of the ObjectPool; what
\* reset_func did is in the projectile's fields
Kept(st) ==
    [st EXCEPT !.ret = Foreign, !.outcome = "none",
               !.reset = [o \in {Foreign} \cup Objs |-> 0]]

\* the sub-pool a colour resolves to
PoolKey(ps, color) == IF color \in DOMAIN ps THEN color ELSE DefaultColor

\* get_projectile(x, y, direction, color); direction.normalize() raises
\* ValueError for the zero vector, after the object was taken and repositioned
GetProjectile(ps, pj, pos, dir, color) ==
    LET k == PoolKey(ps, color)
        st == Get(ps[k])
        p == <<k, st.ret>>
        pj0 == IF st.outcome = "created" THEN [pj EXCEPT ![p] = NewProjectile(k)] ELSE pj
        has == ~pj0[p].destroyed
        pj1 == IF has THEN [pj0 EXCEPT ![p].pos = pos] ELSE pj0
        raises == has /\ dir = "zero"
        pj2 == IF has THEN [pj1 EXCEPT ![p].vel = "set"] ELSE pj1
    IN [pools |-> [ps EXCEPT ![k] = Kept(st)],
        proj |-> IF raises THEN pj1 ELSE [pj2 EXCEPT ![p].active = TRUE],
        p |-> IF raises THEN NoProj ELSE p,
        pool |-> k,
        added |-> IF st.outcome = "created" THEN <<p>> ELSE <<>>,
        outcome |-> IF raises THEN "raised" ELSE "returned"]

\* _reset_projectile(p)
ResetProjectile(pj, p) ==
    IF pj[p].destroyed
    THEN [pj EXCEPT ![p].active = FALSE]
    ELSE [pj EXCEPT ![p].pos = OffScreen, ![p].vel = "zero", ![p].active = FALSE]

\* a release_projectile that releases to the sub-pool of the projectile's
\* colour whether or not the ink_slime component is still there
ReleaseProjectile_NoComponentTest(ps, pj, p) ==
    IF p = Outsider
    THEN [pools |-> ps, proj |-> pj, p |-> p, pool |-> DefaultColor, added |-> <<>>,
          outcome |-> "ignored"]
    ELSE LET k == PoolKey(ps, pj[p].ink_color)
             st == Release(ps[k], IF p[1] = k THEN p[2] ELSE Foreign)
         IN [pools |-> [ps EXCEPT ![k] = Kept(st)],
             proj |-> IF st.outcome = "released" THEN ResetProjectile(pj, p) ELSE pj,
             p |-> p, pool |-> k, added |-> <<>>, outcome |-> st.outcome]

\* release_projectile(p): the sub-pool is read from the ink_slime component
ReleaseProjectile(ps, pj, p) ==
    IF p = Outsider
    THEN [pools |-> ps, proj |-> pj, p |-> p, pool |-> DefaultColor, added |-> <<>>,
          outcome |-> "ignored"]
    ELSE IF pj[p].destroyed
    THEN [pools |-> ps, proj |-> pj, p |-> p, pool |-> UnknownColor, added |-> <<>>,
          outcome |-> "no_component"]
    ELSE LET k == PoolKey(ps, pj[p].ink_color)
             st == Release(ps[k], IF p[1] = k THEN p[2] ELSE Foreign)
         IN [pools |-> [ps EXCEPT ![k] = Kept(st)],
             proj |-> IF st.outcome = "released" THEN ResetProjectile(pj, p) ELSE pj,
             p |-> p, pool |-> k, added |-> <<>>, outcome |-> st.outcome]

StoreProj(r, op, color, pos) ==
    /\ pools' = r.pools
    /\ proj' = r.proj
    /\ pp_call' = [op |-> op, color |-> color, pos |-> pos, p |-> r.p, pool |-> r.pool,
                   outcome |-> r.outcome]
    /\ entities_to_add' = entities_to_add \o r.added
    /\ UNCHANGED <<entities, entities_to_remove, tag_index, entvars, posvars, obsvars>>
    /\ UNCHANGED <<poolvars, gridvars, compvars>>

\* the projectiles initialize(.., n) makes, in the order of their creation;
\* create_ink_slime hands each of them to add_entity
InitialProjectiles(n) ==
    [j \in 1..(NumColors * n) |-> <<InkColors[((j - 1) \div n) + 1], ((j - 1) % n) + 1>>]

\* initialize(entity_factory, entity_manager, n): one sub-pool per ink colour,
\* each pre-populated by n calls of its factory
ProjInitialize(n) ==
    /\ pools = <<>>
    /\ pools' = [k \in Colors |-> NewPool(n)]
    /\ proj' = [p \in Projs |-> IF p[2] <= n THEN NewProjectile(p[1]) ELSE proj[p]]
    /\ pp_call' = [NoPPCall EXCEPT !.op = "initialize"]
    /\ entities_to_add' = entities_to_add \o InitialProjectiles(n)
    /\ UNCHANGED <<entities, entities_to_remove, tag_index, entvars, posvars, obsvars>>
    /\ UNCHANGED <<poolvars, gridvars, compvars>>

ProjGet(pos, dir, color) ==
    /\ pools # <<>>
    /\ LET st == pools[PoolKey(pools, color)]
       IN st.inactive = <<>> => st.factory < MaxPerPool
    /\ StoreProj(GetProjectile(pools, proj, pos, dir, color), "get_projectile", color, pos)

ProjRelease(p) ==
    /\ pools # <<>>
    /\ IF p = Outsider THEN TRUE ELSE proj[p].made
    /\ StoreProj(ReleaseProjectile(pools, proj, p), "release_projectile", UnknownColor,
                 OffScreen)

\* Entity.destroy() on a projectile: the flags are set and the components are
\* gone, so their fields read as the placeholders
ProjDestroy(p) ==
    /\ proj[p].made
    /\ proj' = [proj EXCEPT ![p].destroyed = TRUE, ![p].active = FALSE,
                            ![p].pos = OffScreen, ![p].vel = "zero"]
    /\ pp_call' = NoPPCall
    /\ UNCHANGED <<pools, managervars, poolvars, gridvars, compvars>>

\* the tags InkSlime.__init__ gives every projectile
ProjTags == {"projectile", "player_projectile", "ink_slime"}

\* EntityManager.update(dt) of the manager the factory adds the projectiles
\* to: the add-flush, Entity.update on every tracked projectile that is active
\* and unmarked (D are those whose InkSlimeComponent reaches its lifetime and
\* calls destroy()), the marked check of each turn and the remove-flush. The
\* motion of a projectile in flight is not followed.
ProjManagerUpdate(D) ==
    /\ pools # <<>>
    /\ LET table == entities \o SelectSeq(entities_to_add, LAMBDA p : p \notin Range(entities))
           updated == {p \in Range(table) : proj[p].active /\ ~proj[p].destroyed}
           pj == [p \in Projs |->
                     IF p \in D
                     THEN [proj[p] EXCEPT !.destroyed = TRUE, !.active = FALSE,
                                          !.pos = OffScreen, !.vel = "zero"]
                     ELSE proj[p]]
           kept == SelectSeq(table, LAMBDA p : ~pj[p].destroyed)
       IN /\ D \subseteq updated
          /\ entities' = kept
          /\ tag_index' = IF kept = <<>> THEN <<>> ELSE [t \in ProjTags |-> Range(kept)]
          /\ proj' = pj
    /\ entities_to_add' = <<>>
    /\ pp_call' = NoPPCall
    /\ UNCHANGED <<pools, entities_to_remove, entvars, posvars, obsvars>>
    /\ UNCHANGED <<poolvars, gridvars, compvars>>

ProjInit == ManagerInit /\ PoolUnused /\ GridUnused /\ CompsUnused /\ ProjUnused

ProjNext ==
    \/ \E n \in 1..MaxPoolInitial : ProjInitialize(n)
    \/ \E pos \in Targets, dir \in Directions, color \in Colors \cup {UnknownColor} :
          ProjGet(pos, dir, color)
    \/ \E p \in Projs \cup {Outsider} : ProjRelease(p)
    \/ \E p \in Projs : ProjDestroy(p)
    \/ \E D \in SUBSET Projs : ProjManagerUpdate(D)

ProjSpec == ProjInit /\ [][ProjNext]_vars

\* =========================================================== SpatialGrid
Abs(n) == IF n >= 0 THEN n ELSE -n

\* n // d of Python for d # 0: the quotient rounded toward minus infinity
PyFloorDiv(n, d) ==
    LET q == Abs(n) \div Abs(d)
    IN IF (n >= 0) = (d > 0) \/ n = 0 THEN q
       ELSE IF q * Abs(d) = Abs(n) THEN -q ELSE -(q + 1)

Cols == PyFloorDiv(WorldWidth, cell_size) + 1
Rows == PyFloorDiv(WorldHeight, cell_size) + 1

Max(a, b) == IF a >= b THEN a ELSE b
Min(a, b) == IF a <= b THEN a ELSE b

\* int(n / d) of Python for d # 0: the quotient rounded toward zero
TruncDiv(n, d) ==
    LET q == Abs(n) \div Abs(d)
    IN IF (n >= 0) = (d > 0) THEN q ELSE -q

\* int((c - size / 2) / cell_size) and int((c + size / 2) / cell_size), computed
\* in half units so that an odd size keeps its half
CellOfLow(c, size) == TruncDiv(2 * c - size, 2 * cell_size)
CellOfHigh(c, size) == TruncDiv(2 * c + size, 2 * cell_size)

\* a column range one cell wider on the left than the box
EntityCols_Padded(e) ==
    (Max(0, CellOfLow(position[e][1], extent[e][1])) - 1)
        .. Min(Cols - 1, CellOfHigh(position[e][1], extent[e][1]))

EntityCols(e) ==
    Max(0, CellOfLow(position[e][1], extent[e][1]))
        .. Min(Cols - 1, CellOfHigh(position[e][1], extent[e][1]))

\* a row range whose upper end is not clamped to the last row
EntityRows_Unclamped(e) ==
    Max(0, CellOfLow(position[e][2], extent[e][2]))
        .. CellOfHigh(position[e][2], extent[e][2])

EntityRows(e) ==
    Max(0, CellOfLow(position[e][2], extent[e][2]))
        .. Min(Rows - 1, CellOfHigh(position[e][2], extent[e][2]))

OverlappedCells(e) == {<<col, row>> : col \in EntityCols(e), row \in EntityRows(e)}

\* an update() that places every active entity, whatever components it has
Placed_NoComponentTest(e) == active[e]

\* the entities update() does not skip
Placed(e) ==
    /\ active[e]
    /\ GetComponent(e, "transform") # "None"
    /\ GetComponent(e, "collision") # "None"

AppendToCells(g, cells, e) ==
    [k \in DOMAIN g \cup cells |->
        IF k \in cells
        THEN Append(IF k \in DOMAIN g THEN g[k] ELSE <<>>, e)
        ELSE g[k]]

RECURSIVE GridInsert(_, _, _)
GridInsert(list, g, ec) ==
    IF list = <<>>
    THEN [grid |-> g, entity_cells |-> ec]
    ELSE LET e == Head(list)
         IN IF ~Placed(e)
            THEN GridInsert(Tail(list), g, ec)
            ELSE GridInsert(
                     Tail(list),
                     AppendToCells(g, OverlappedCells(e), e),
                     [k \in DOMAIN ec \cup {e} |->
                         IF k = e THEN OverlappedCells(e) ELSE ec[k]])

\* the list handed to update(): the chosen entities in id order (the order
\* within a cell's list is read by no query)
RECURSIVE Ascending(_)
Ascending(S) ==
    IF S = {} THEN <<>>
    ELSE LET m == CHOOSE x \in S : \A y \in S : x <= y
         IN <<m>> \o Ascending(S \ {m})

GetPotentialCollisions(e) ==
    IF e \notin DOMAIN entity_cells
    THEN {}
    ELSE {o \in Ents :
            \E k \in entity_cells[e] :
                k \in DOMAIN grid /\ o \in Range(grid[k]) /\ o # e /\ active[o]}

\* a result list that appends every hit of every cell, without the set
PotentialCollisionsList_NoDedup(e) ==
    LET RECURSIVE Hits(_)
        Hits(cells) ==
            IF cells = {} THEN <<>>
            ELSE LET k == CHOOSE c \in cells : TRUE
                 IN (IF k \in DOMAIN grid
                     THEN SelectSeq(grid[k], LAMBDA o : o # e /\ active[o])
                     ELSE <<>>) \o Hits(cells \ {k})
    IN IF e \notin DOMAIN entity_cells THEN <<>> ELSE Hits(entity_cells[e])

\* list(potential_collisions): the returned list holds each element of the set
\* once (its order is not read)
PotentialCollisionsList(e) == Ascending(GetPotentialCollisions(e))

\* pygame.Rect(x - width / 2, y - height / 2, width, height): a Rect stores
\* integers, and a float argument is converted by dropping its fraction
RectOf(e) ==
    [left |-> TruncDiv(2 * position[e][1] - extent[e][1], 2),
     top |-> TruncDiv(2 * position[e][2] - extent[e][2], 2),
     w |-> extent[e][1],
     h |-> extent[e][2]]

\* Rect.colliderect for rectangles of positive width and height
Colliderect(r1, r2) ==
    /\ r1.left < r2.left + r2.w
    /\ r2.left < r1.left + r1.w
    /\ r1.top < r2.top + r2.h
    /\ r2.top < r1.top + r1.h

CheckCollision(e1, e2) ==
    IF \E e \in {e1, e2}, c \in CompTypes : GetComponent(e, c) = "None"
    THEN FALSE
    ELSE Colliderect(RectOf(e1), RectOf(e2))

\* entities as the factory builds them: active, with a transform and a
\* collision component, at a position and with a box drawn from the ranges
GridInit ==
    /\ entities = <<>>
    /\ entities_to_add = <<>>
    /\ entities_to_remove = <<>>
    /\ tag_index = <<>>
    /\ tags = [e \in Ents |-> {}]
    /\ active = [e \in Ents |-> TRUE]
    /\ marked_for_destruction = [e \in Ents |-> FALSE]
    /\ components = [e \in Ents |-> CompTypes]
    /\ pc = "idle"
    /\ snapshot = <<>>
    /\ idx = 1
    /\ update_count = [e \in Ents |-> 0]
    /\ turn_eligible = {}
    /\ flushed = {}
    /\ flushed_tags = [e \in Ents |-> {}]
    /\ flushed_late = {}
    /\ submitted_in_pass = {}
    /\ remove_requested = {}
    /\ self_destroyed = {}
    /\ raised = FALSE
    /\ marked_at_turn = {}
    /\ removed_pending = {}
    /\ PoolUnused
    /\ CompsUnused
    /\ ProjUnused
    /\ position \in [Ents -> (-NegCoord..MaxCoord) \X (1..MaxRowCoord)]
    /\ extent \in [Ents -> {<<n, n>> : n \in 1..MaxExtent}]
    /\ grid = <<>>
    /\ entity_cells = <<>>
    /\ cell_size = CellSize
    /\ grid_ctor = "built"
    /\ grid_fresh = FALSE

\* an update() that inserts into the grid as it is, without clear()
GridUpdate_NoClear(es) ==
    /\ grid_ctor = "built"
    /\ LET r == GridInsert(Ascending(es), grid, entity_cells)
       IN /\ grid' = r.grid
          /\ entity_cells' = r.entity_cells
    /\ grid_fresh' = TRUE
    /\ UNCHANGED <<position, extent, cell_size, grid_ctor, managervars, poolvars, compvars, projvars>>

\* SpatialGrid.update(entities): clear(), then the rebuild
GridUpdate(es) ==
    /\ grid_ctor = "built"
    /\ LET r == GridInsert(Ascending(es), <<>>, <<>>)
       IN /\ grid' = r.grid
          /\ entity_cells' = r.entity_cells
    /\ grid_fresh' = TRUE
    /\ UNCHANGED <<position, extent, cell_size, grid_ctor, managervars, poolvars, compvars, projvars>>

GridNext ==
    \/ \E es \in SUBSET Ents : GridUpdate(es)
    \/ \E e \in Ents, b \in BOOLEAN : SetActive(e, b)
    \/ \E e \in Ents, c \in CompTypes : RemoveComponent(e, c)
    \/ \E e \in Ents, c \in CompTypes : AddComponent(e, c)

GridSpec == GridInit /\ [][GridNext]_vars

\* ------------------------------------------------ SpatialGrid.__init__
\* the cell sizes a caller may pass: negative, zero and positive
CellSizes == (-MinCellSize)..CellSize

\* entities inside the world rectangle, and no grid constructed yet
GridCtorInit ==
    /\ ManagerInit
    /\ PoolUnused
    /\ CompsUnused
    /\ ProjUnused
    /\ position \in [Ents -> (0..WorldWidth) \X (0..WorldHeight)]
    /\ extent \in [Ents -> {<<n, n>> : n \in 1..MaxExtent}]
    /\ grid = <<>>
    /\ entity_cells = <<>>
    /\ cell_size = CellSize
    /\ grid_ctor = "none"
    /\ grid_fresh = FALSE

\* SpatialGrid(width, height, cs): width // cs raises ZeroDivisionError for
\* cs = 0; every other cs is stored and the empty grid is returned
GridConstruct(cs) ==
    /\ grid_ctor = "none"
    /\ cell_size' = cs
    /\ grid_ctor' = IF cs = 0 THEN "raised" ELSE "built"
    /\ grid' = <<>>
    /\ entity_cells' = <<>>
    /\ UNCHANGED <<position, extent, grid_fresh, managervars, poolvars, compvars, projvars>>

GridCtorNext ==
    \/ \E cs \in CellSizes : GridConstruct(cs)
    \/ GridNext

GridCtorSpec == GridCtorInit /\ [][GridCtorNext]_vars

\* ================================================= Entity and Component
\* The component instances: odd ids are transform components, even ids are
\* collision components (component_type is fixed by the component's class).
\* the entities whose components are followed instance by instance
Owners == 1..NumOwners

TypeOf(c) == IF c % 2 = 1 THEN "transform" ELSE "collision"

TypesOf(seq) == {TypeOf(c) : c \in Range(seq)}

\* self.components.get(ty) on the map m of entity e
Attached(m, e, ty) ==
    LET S == {c \in Range(m[e]) : TypeOf(c) = ty}
    IN IF S = {} THEN NoComp ELSE CHOOSE c \in S : TRUE

EntState == [map |-> comp_map, ent |-> comp_entity, log |-> <<>>, ret |-> NoComp]

RemoveComponentOp(st, e, ty) ==
    LET c == Attached(st.map, e, ty)
    IN IF c = NoComp
       THEN [st EXCEPT !.ret = NoComp]
       ELSE [map |-> [st.map EXCEPT ![e] = RemoveKey(@, c)],
             ent |-> [st.ent EXCEPT ![c] = 0],
             log |-> st.log \o << <<"pop", c>>, <<"on_remove", c>>, <<"unset", c>> >>,
             ret |-> c]

\* an add_component that stores c over the old component without detaching it
AddComponentOp_NoDetach(st, e, c) ==
    LET old == Attached(st.map, e, TypeOf(c))
    IN [map |-> [st.map EXCEPT ![e] = Append(RemoveKey(@, old), c)],
        ent |-> [st.ent EXCEPT ![c] = e],
        log |-> st.log \o << <<"store", c>>, <<"set", c>>, <<"on_add", c>> >>,
        ret |-> c]

AddComponentOp(st, e, c) ==
    LET s1 == IF Attached(st.map, e, TypeOf(c)) # NoComp
              THEN RemoveComponentOp(st, e, TypeOf(c))
              ELSE st
    IN [map |-> [s1.map EXCEPT ![e] = Append(@, c)],
        ent |-> [s1.ent EXCEPT ![c] = e],
        log |-> s1.log \o << <<"store", c>>, <<"set", c>>, <<"on_add", c>> >>,
        ret |-> c]

\* a destroy() that fires the hooks and keeps the component map
DestroyOp_NoClear(st, e) ==
    [st EXCEPT !.log = st.log \o [i \in 1..Len(st.map[e]) |-> <<"on_remove", st.map[e][i]>>]]

\* destroy(): on_remove for every attached component, then components.clear();
\* Component.entity is not written
DestroyOp(st, e) ==
    [map |-> [st.map EXCEPT ![e] = <<>>],
     ent |-> st.ent,
     log |-> st.log \o [i \in 1..Len(st.map[e]) |-> <<"on_remove", st.map[e][i]>>],
     ret |-> NoComp]

\* Entity calls are made between Entity.update calls and by a component's update
EntCallAllowed == epc \in {"idle", "returned", "in_comp"}

\* the first call after Entity.update returned ends the observation of that call
EntAfterCall ==
    /\ epc' = IF epc = "returned" THEN "idle" ELSE epc
    /\ IF epc = "returned"
       THEN /\ esnap' = <<>> /\ eidx' = 1 /\ ecur' = 0
            /\ comp_updates' = [c \in Comps |-> 0]
            /\ enabled_at_turn' = {}
       ELSE UNCHANGED <<esnap, eidx, ecur, comp_updates, enabled_at_turn>>

StoreEnt(st, op, e) ==
    /\ comp_map' = st.map
    /\ comp_entity' = st.ent
    /\ components' = [x \in Ents |-> TypesOf(st.map[x])]
    /\ ent_call' = [op |-> op, e |-> e, ret |-> st.ret, log |-> st.log,
                     again |-> op = "destroy" /\ marked_for_destruction[e]]
    /\ UNCHANGED <<emvars, tags, posvars, obsvars, poolvars, gridvars, projvars>>

EntityAddComponent(e, c) ==
    /\ EntCallAllowed
    /\ StoreEnt(AddComponentOp(EntState, e, c), "add_component", e)
    /\ EntAfterCall
    /\ UNCHANGED <<enabled, active, marked_for_destruction>>

EntityRemoveComponent(e, ty) ==
    /\ EntCallAllowed
    /\ StoreEnt(RemoveComponentOp(EntState, e, ty), "remove_component", e)
    /\ EntAfterCall
    /\ UNCHANGED <<enabled, active, marked_for_destruction>>

EntityDestroy(e) ==
    /\ EntCallAllowed
    /\ marked_for_destruction' = [marked_for_destruction EXCEPT ![e] = TRUE]
    /\ active' = [active EXCEPT ![e] = FALSE]
    /\ StoreEnt(DestroyOp(EntState, e), "destroy", e)
    /\ EntAfterCall
    /\ UNCHANGED enabled

EntitySetActive(e, b) ==
    /\ EntCallAllowed
    /\ active' = [active EXCEPT ![e] = b]
    /\ ent_call' = NoEntCall
    /\ EntAfterCall
    /\ UNCHANGED <<comp_map, comp_entity, enabled, marked_for_destruction, components,
                   emvars, tags, posvars, obsvars, poolvars, gridvars, projvars>>

ComponentSetEnabled(c, b) ==
    /\ EntCallAllowed
    /\ enabled' = [enabled EXCEPT ![c] = b]
    /\ ent_call' = NoEntCall
    /\ EntAfterCall
    /\ UNCHANGED <<comp_map, comp_entity, managervars, poolvars, gridvars, projvars>>

\* ------------------------------------------------------- Entity.update
ECurrent == esnap[eidx]

\* a turn test that also requires the component to be still attached
ComponentEnabled_Attached(c) == enabled[c] /\ c \in Range(comp_map[ecur])

\* a turn test that looks at the entity's active flag again
ComponentEnabled_Active(c) == enabled[c] /\ active[ecur]

\* `if component.enabled`
ComponentEnabled(c) == enabled[c]

\* update(dt) on an inactive entity returns at once
EntityUpdateInactive(e) ==
    /\ epc \in {"idle", "returned"}
    /\ ~active[e]
    /\ epc' = "returned"
    /\ ecur' = e
    /\ esnap' = <<>>
    /\ eidx' = 1
    /\ comp_updates' = [c \in Comps |-> 0]
    /\ enabled_at_turn' = {}
    /\ ent_call' = NoEntCall
    /\ UNCHANGED <<comp_map, comp_entity, enabled, managervars, poolvars, gridvars, projvars>>

\* update(dt) on an active entity: list(self.components.values()) is taken
EntityUpdateStart(e) ==
    /\ epc \in {"idle", "returned"}
    /\ active[e]
    /\ epc' = "pass"
    /\ ecur' = e
    /\ esnap' = comp_map[e]
    /\ eidx' = 1
    /\ comp_updates' = [c \in Comps |-> 0]
    /\ enabled_at_turn' = {}
    /\ ent_call' = NoEntCall
    /\ UNCHANGED <<comp_map, comp_entity, enabled, managervars, poolvars, gridvars, projvars>>

\* the turn of an enabled component: its update(dt) is entered
ComponentTurn ==
    /\ epc = "pass" /\ eidx <= Len(esnap)
    /\ ComponentEnabled(ECurrent)
    /\ epc' = "in_comp"
    /\ comp_updates' = [comp_updates EXCEPT ![ECurrent] = IF @ < 2 THEN @ + 1 ELSE @]
    /\ enabled_at_turn' = IF enabled[ECurrent] THEN enabled_at_turn \cup {ECurrent}
                          ELSE enabled_at_turn
    /\ UNCHANGED <<comp_map, comp_entity, enabled, ent_call, ecur, esnap, eidx,
                   managervars, poolvars, gridvars, projvars>>

\* the component's update(dt) returned: the next component
ComponentReturn ==
    /\ epc = "in_comp"
    /\ epc' = "pass"
    /\ eidx' = eidx + 1
    /\ UNCHANGED <<comp_map, comp_entity, enabled, ent_call, ecur, esnap, comp_updates,
                   enabled_at_turn, managervars, poolvars, gridvars, projvars>>

\* a component that is not enabled at its turn is passed over
ComponentSkip ==
    /\ epc = "pass" /\ eidx <= Len(esnap)
    /\ ~ComponentEnabled(ECurrent)
    /\ eidx' = eidx + 1
    /\ enabled_at_turn' = IF enabled[ECurrent] THEN enabled_at_turn \cup {ECurrent}
                          ELSE enabled_at_turn
    /\ UNCHANGED <<comp_map, comp_entity, enabled, ent_call, epc, ecur, esnap, comp_updates,
                   managervars, poolvars, gridvars, projvars>>

EntityUpdateFinish ==
    /\ epc = "pass" /\ eidx > Len(esnap)
    /\ epc' = "returned"
    /\ UNCHANGED <<comp_map, comp_entity, enabled, ent_call, ecur, esnap, eidx, comp_updates,
                   enabled_at_turn, managervars, poolvars, gridvars, projvars>>

EntityInit == ManagerInit /\ PoolUnused /\ GridUnused /\ CompsUnused /\ ProjUnused

EntityNext ==
    \/ \E e \in Owners, c \in Comps : EntityAddComponent(e, c)
    \/ \E e \in Owners, ty \in CompTypes : EntityRemoveComponent(e, ty)
    \/ \E e \in Owners : EntityDestroy(e)
    \/ \E e \in Owners, b \in BOOLEAN : EntitySetActive(e, b)
    \/ \E c \in Comps, b \in BOOLEAN : ComponentSetEnabled(c, b)
    \/ \E e \in Owners : EntityUpdateInactive(e)
    \/ \E e \in Owners : EntityUpdateStart(e)
    \/ ComponentTurn
    \/ ComponentReturn
    \/ ComponentSkip
    \/ EntityUpdateFinish

EntitySpec == EntityInit /\ [][EntityNext]_vars

\* ================================================================ claims
InPass == pc \in {"pass", "in_update"}
RemoveFlushStep == pc = "pass" /\ pc' = "returned"
IsPrefix(s, t) == Len(s) <= Len(t) /\ SubSeq(t, 1, Len(s)) = s

C2_SelfDestructionSafe ==
    pc = "returned" =>
        /\ \A e \in self_destroyed :
              /\ e \notin Range(entities)
              /\ \A t \in DOMAIN tag_index : e \notin tag_index[t]
        /\ \A e \in turn_eligible : update_count[e] = 1

\* C3: a destroy() of a tracked entity leaves it without components at once but
\* changes no answer of get_entity or of a tag query; an entity leaves those
\* answers only in the step that runs the remove-flush of update(dt).
C3_DestroyThenQuery ==
    [][\A e \in Ents :
         /\ (~marked_for_destruction[e] /\ marked_for_destruction'[e]
               /\ e \in Range(entities))
             => /\ \A c \in CompTypes : GetComponent(e, c)' = "None"
                /\ GetEntity(e)' = e
                /\ \A t \in Tags : GetEntitiesWithTag(t)' = GetEntitiesWithTag(t)
         /\ (GetEntity(e) = e /\ GetEntity(e)' # e) => RemoveFlushStep
         /\ \A t \in Tags :
               (e \in GetEntitiesWithTag(t) /\ e \notin GetEntitiesWithTag(t)')
               => RemoveFlushStep
      ]_vars

C3_Witness ==
    \E e \in Ents :
        /\ marked_for_destruction[e]
        /\ pc \in {"idle", "in_update"}
        /\ \A c \in CompTypes : GetComponent(e, c) = "None"
        /\ GetEntity(e) = e
        /\ \E t \in Tags : e \in GetEntitiesWithTag(t)

\* C4: when update(dt) returns, every id listed in the tag index under a tag is
\* in the table and that entity carries the tag, and every tracked entity is
\* listed under every tag it carries.
C4_TagIndexConsistent ==
    pc = "returned" =>
        /\ \A t \in DOMAIN tag_index : \A id \in tag_index[t] :
              id \in Range(entities) /\ t \in tags[id]
        /\ \A e \in Range(entities) : \A t \in tags[e] :
              t \in DOMAIN tag_index /\ e \in tag_index[t]

\* C5: during the update pass add_entity and remove_entity only append to the
\* pending lists and the table keeps its ids; an entity submitted during the
\* pass is not in the snapshot and not updated in that call, and in the next
\* call it is flushed in, gets its turn and is updated once if it is then
\* active and unmarked.
C5_PassStep ==
    (InPass /\ pc' \in {"pass", "in_update"}) =>
        /\ Range(entities)' = Range(entities)
        /\ IsPrefix(entities_to_add, entities_to_add')
        /\ IsPrefix(entities_to_remove, entities_to_remove')

C5_State ==
    /\ InPass =>
          \A e \in submitted_in_pass :
              /\ e \in Range(entities_to_add)
              /\ e \notin Range(snapshot)
              /\ update_count[e] = 0
    /\ pc = "returned" =>
          \A e \in flushed_late :
              /\ e \in Range(snapshot)
              /\ idx > Len(snapshot)
              /\ update_count[e] = IF e \in turn_eligible THEN 1 ELSE 0

C5_DeferredMutation == []C5_State /\ [][C5_PassStep]_vars

C5_Witness ==
    /\ pc = "returned"
    /\ \E e \in flushed_late : update_count[e] = 1

C26_Step ==
    \A id \in Ents :
        (RemoveEntity(id) /\ id \notin Range(entities)) => UNCHANGED <<emvars, entvars>>

C26_State ==
    \A e \in removed_pending :
        IF pc = "pass" /\ idx = 1
        THEN e \in flushed /\ e \in Range(entities) /\ e \in Range(snapshot)
        ELSE e \in Range(entities_to_add) /\ e \notin Range(entities)

\* C26: remove_entity(id) for an id that is not in the table changes no
\* manager state; this holds for the id of a pending entity too, so a
\* remove_entity between add_entity(E) and the next update(dt) does not cancel
\* the add: E stays pending and is tracked once that update has flushed.
C26_RemoveUnknownNoOp == []C26_State /\ [][C26_Step]_vars

C26_Witness ==
    /\ pc = "pass" /\ idx = 1
    /\ \E e \in removed_pending :
          e \in flushed /\ e \in Range(entities) /\ e \notin Range(entities_to_remove)

\* snapshot entities that became marked after their own turn had ended
MarkedLate == {e \in Range(snapshot) : marked_for_destruction[e] /\ e \notin marked_at_turn}

\* C27 (as stated): when update(dt) returns, every entity that was marked when
\* its own turn ended is absent from the table, and every entity that became
\* marked later in the pass is still in the table, inactive and without
\* components.
C27_RemovalTiming_Original ==
    pc = "returned" =>
        /\ \A e \in marked_at_turn : e \notin Range(entities)
        /\ \A e \in MarkedLate :
              e \in Range(entities) /\ ~active[e] /\ components[e] = {}

C27_State == pc = "returned" => \A e \in marked_at_turn : e \notin Range(entities)

C27_Step ==
    /\ RemoveFlushStep =>
          \A e \in MarkedLate : e \notin Range(entities_to_remove) => e \in Range(entities')
    /\ \A e \in Ents :
          (e \in Range(entities) /\ e \notin Range(entities'))
          => (RemoveFlushStep /\ e \in Range(entities_to_remove))
    /\ (InPass /\ (pc' # pc \/ idx' # idx)) => UNCHANGED <<active, components>>

\* C27 (amended): when update(dt) returns, every entity that was marked when
\* its own turn ended is absent from the table; an entity that became marked
\* later in the pass is still in the table when the call returns unless its id
\* is in the pending-remove list (remove_entity was called for it), and it
\* leaves the table only in a remove-flush that finds its id there; the pass
\* itself changes no active flag and no component map, so the entity is
\* inactive and without components unless a later set_active or add_component
\* call changes that.
C27_RemovalTiming == []C27_State /\ [][C27_Step]_vars

C27_Witness ==
    /\ pc = "returned" /\ Len(snapshot) = 2
    /\ snapshot[2] \in self_destroyed \cap marked_at_turn
    /\ snapshot[2] \notin Range(entities)
    /\ snapshot[1] \in MarkedLate
    /\ update_count[snapshot[1]] = 1
    /\ snapshot[1] \in Range(entities)
    /\ ~active[snapshot[1]] /\ components[snapshot[1]] = {}

\* ------------------------------------------------------ ObjectPool claims
Created == 1..factory_calls

\* C6: every object the pool has created is in exactly one of active_objects
\* and inactive_objects, and appears there exactly once.
C6_PoolPartition ==
    \A o \in Created : Count(active_objects, o) + Count(inactive_objects, o) = 1

C6_Witness ==
    /\ last_call.op = "release" /\ last_call.outcome = "released"
    /\ active_objects # <<>> /\ inactive_objects # <<>>
    /\ total_created > initial_size

\* C7: a get() that directly follows an effective release(obj) returns obj, and
\* reset_func ran on obj exactly once between that release and the get().
C7_IdentityReuse ==
    [][(last_call.op = "release" /\ last_call.outcome = "released"
          /\ last_call'.op = "get")
       => /\ last_call'.obj = last_call.obj
          /\ last_call'.outcome = "reused"
          /\ reset_count[last_call.obj] = 1
      ]_vars

C7_Witness ==
    /\ prev_call.op = "release" /\ prev_call.outcome = "released"
    /\ last_call.op = "get" /\ last_call.obj = prev_call.obj
    /\ Len(inactive_objects) >= 1

\* C8: release(obj) of an object that is not in the active list changes nothing:
\* the lists, total_created and peak_active_count stay as they are and
\* reset_func is not called.
C8_ReleaseInactiveNoOp ==
    [][(last_call'.op = "release" /\ last_call'.obj \notin Range(active_objects))
       => /\ last_call'.outcome = "ignored"
          /\ UNCHANGED <<active_objects, inactive_objects, peak_active_count,
                         total_created, factory_calls, reset_count>>
      ]_vars

C8_Witness ==
    /\ last_call.op = "release" /\ last_call.outcome = "ignored"
    /\ prev_call.op = "release" /\ prev_call.outcome = "released"
    /\ prev_call.obj = last_call.obj

\* C9: a get() on an empty inactive list calls the factory once and adds one to
\* total_created, a get() on a non-empty inactive list does neither; more
\* active objects than initial_size means total_created exceeds initial_size.
C9_GetStep ==
    last_call'.op = "get" =>
        IF inactive_objects = <<>>
        THEN /\ factory_calls' = factory_calls + 1
             /\ total_created' = total_created + 1
             /\ last_call'.outcome = "created"
        ELSE /\ factory_calls' = factory_calls
             /\ total_created' = total_created
             /\ last_call'.outcome = "reused"

C9_State == Len(active_objects) > initial_size => total_created > initial_size

C9_PoolGrowth == []C9_State /\ [][C9_GetStep]_vars

C9_Witness ==
    /\ last_call.op = "get" /\ last_call.outcome = "created"
    /\ Len(active_objects) > initial_size
    /\ initial_size > 0
    /\ total_created > initial_size

C28_State ==
    /\ Len(active_objects) + Len(inactive_objects) = total_created
    /\ peak_active_count >= Len(active_objects)

\* C28: after construction and after any sequence of get, release and
\* release_all calls, the number of active objects plus the number of inactive
\* objects is total_created, and peak_active_count is at least the number of
\* active objects and never decreases.
C28_PoolConservation == []C28_State /\ [][peak_active_count' >= peak_active_count]_vars

C28_Witness ==
    /\ prev_call.op = "release_all" /\ last_call.op = "get"
    /\ Len(active_objects) = 1
    /\ peak_active_count >= 2
    /\ total_created > initial_size
    /\ inactive_objects # <<>>

\* ----------------------------------------------------- SpatialGrid claims
FloorDiv(n, d) == n \div d
Clamp(v, lo, hi) == Max(lo, Min(hi, v))

\* the grid cells of an entity's bounding box: each edge integer-divided by the
\* cell size and clamped to the grid's columns and rows
BoxCells(e) ==
    {<<col, row>> :
        col \in Clamp(FloorDiv(2 * position[e][1] - extent[e][1], 2 * CellSize), 0, Cols - 1)
                 .. Clamp(FloorDiv(2 * position[e][1] + extent[e][1], 2 * CellSize), 0, Cols - 1),
        row \in Clamp(FloorDiv(2 * position[e][2] - extent[e][2], 2 * CellSize), 0, Rows - 1)
                 .. Clamp(FloorDiv(2 * position[e][2] + extent[e][2], 2 * CellSize), 0, Rows - 1)}

\* C10: after SpatialGrid.update, an entity B whose bounding box shares no grid
\* cell with the box of A is not in get_potential_collisions(A).
C10_BroadPhaseSound ==
    grid_fresh =>
        \A a \in Ents, b \in Ents :
            BoxCells(a) \cap BoxCells(b) = {} => b \notin GetPotentialCollisions(a)

C10_Witness ==
    /\ grid_fresh
    /\ \E a \in Ents, b \in Ents :
          /\ a # b
          /\ a \in DOMAIN entity_cells /\ entity_cells[a] # {}
          /\ b \in DOMAIN entity_cells /\ entity_cells[b] # {}
          /\ BoxCells(a) \cap BoxCells(b) = {}
          /\ b \notin GetPotentialCollisions(a)

\* the boxes [x - w/2, x + w/2] x [y - h/2, y + h/2] of a and b overlap with
\* positive length on both axes (compared in half units)
BoxesOverlap(a, b) ==
    /\ Abs(2 * position[a][1] - 2 * position[b][1]) < extent[a][1] + extent[b][1]
    /\ Abs(2 * position[a][2] - 2 * position[b][2]) < extent[a][2] + extent[b][2]

\* C11: after SpatialGrid.update(entities), two distinct active entities of the
\* list that have both components and whose bounding boxes overlap are in each
\* other's get_potential_collisions, wherever the boxes lie, outside the world
\* rectangle included.
C11_BroadPhaseComplete ==
    grid_fresh =>
        \A a \in Ents, b \in Ents :
            (/\ a # b
             /\ a \in DOMAIN entity_cells /\ b \in DOMAIN entity_cells
             /\ BoxesOverlap(a, b))
            => (b \in GetPotentialCollisions(a) /\ a \in GetPotentialCollisions(b))

\* C12: for two entities that have both components, check_collision(a, b) is
\* true exactly when their boxes overlap with positive length on both axes, for
\* odd and even extents alike; boxes whose edges touch do not collide.
C12_NarrowPhase ==
    \A a \in Ents, b \in Ents :
        (a # b /\ components[a] = CompTypes /\ components[b] = CompTypes)
        => (CheckCollision(a, b) <=> BoxesOverlap(a, b))

\* C13: a SpatialGrid whose cell size is zero or negative cannot be
\* constructed: the constructor fails for every cell_size <= 0, so no grid
\* with such a cell size is ever built and used.
C13_BadCellSizeFatal ==
    (grid_ctor # "none" /\ cell_size <= 0) => grid_ctor = "raised"

\* C22: get_potential_collisions(e) never returns e itself, never returns an
\* entity that is inactive when the query is made (even if it was active when
\* the grid was rebuilt), and never returns an entity twice, also when the two
\* entities share several cells.
C22_CandidateList ==
    \A e \in Ents :
        LET r == PotentialCollisionsList(e)
        IN /\ e \notin Range(r)
           /\ \A o \in Range(r) : active[o]
           /\ Cardinality(Range(r)) = Len(r)

C22_Witness ==
    \E a \in Ents, b \in Ents :
        /\ a # b
        /\ a \in DOMAIN entity_cells /\ b \in DOMAIN entity_cells
        /\ Cardinality(entity_cells[a] \cap entity_cells[b]) >= 2
        /\ PotentialCollisionsList(a) = <<b>>
        /\ ~grid_fresh

Incomplete(e) == components[e] # CompTypes

\* C23: an entity without a transform or without a collision component is
\* absent from the grid after SpatialGrid.update and from all collision
\* results: it is in no cell, get_potential_collisions on it is empty, it is in
\* no other entity's candidates, and check_collision with it on either side is
\* false.
C23_IncompleteAbsent ==
    \A e \in Ents :
        Incomplete(e) =>
            /\ \A o \in Ents : ~CheckCollision(e, o) /\ ~CheckCollision(o, e)
            /\ grid_fresh =>
                  /\ \A k \in DOMAIN grid : e \notin Range(grid[k])
                  /\ e \notin DOMAIN entity_cells
                  /\ PotentialCollisionsList(e) = <<>>
                  /\ \A o \in Ents : e \notin Range(PotentialCollisionsList(o))

C23_Witness ==
    \E e \in Ents, o \in Ents :
        /\ grid_fresh /\ active[e] /\ Incomplete(e)
        /\ o \in DOMAIN entity_cells /\ entity_cells[o] # {}
        /\ BoxesOverlap(e, o)
        /\ PotentialCollisionsList(o) = <<>>

\* the cells whose list holds e
CellsListing(e) == {k \in DOMAIN grid : e \in Range(grid[k])}

\* C24: after SpatialGrid.update every cell key (col, row) of the grid has
\* 0 <= col < cols and 0 <= row < rows, and the per-entity record is exact:
\* e is listed in cell c exactly when c is in the cell set recorded under e.
C24_CellsInBounds ==
    /\ \A k \in DOMAIN grid : 0 <= k[1] /\ k[1] < Cols /\ 0 <= k[2] /\ k[2] < Rows
    /\ \A e \in Ents :
          CellsListing(e) = IF e \in DOMAIN entity_cells THEN entity_cells[e] ELSE {}

C24_Witness ==
    /\ grid_fresh
    /\ \E e \in Ents, o \in Ents :
          /\ e # o
          /\ e \in DOMAIN entity_cells /\ o \in DOMAIN entity_cells
          /\ CellOfHigh(position[e][1], extent[e][1]) > Cols - 1
          /\ CellOfHigh(position[e][2], extent[e][2]) > Rows - 1
          /\ CellOfLow(position[o][1], extent[o][1]) < 0
          /\ entity_cells[e] # {} /\ entity_cells[o] # {}
          /\ entity_cells[e] # entity_cells[o]

\* what update(es) leaves: an entity of es that is active and has both
\* components is recorded with, and listed in, exactly the cells of its box as
\* it is now; every other entity has no record and is in no cell
Rebuilt(es) ==
    \A e \in Ents :
        IF e \in es /\ Placed(e)
        THEN /\ e \in DOMAIN entity_cells' /\ entity_cells'[e] = OverlappedCells(e)
             /\ CellsListing(e)' = OverlappedCells(e)
             /\ \A k \in OverlappedCells(e) : Count(grid'[k], e) = 1
        ELSE /\ e \notin DOMAIN entity_cells'
             /\ CellsListing(e)' = {}

C25_Step == grid_fresh' => \A es \in SUBSET Ents : GridUpdate(es) => Rebuilt(es)

\* C25: SpatialGrid.update(entities) is a full rebuild: afterwards cells and
\* cell records depend only on the entities passed and on their active flag,
\* position and extents at the call; nothing of an earlier update survives, so
\* an entity that is omitted, inactive or missing a component is in no cell
\* and has no cell record.
C25_FullRebuild == [][C25_Step]_vars

C25_Witness ==
    /\ grid_fresh
    /\ \E e \in Ents, o \in Ents :
          /\ Placed(e) /\ e \notin DOMAIN entity_cells /\ OverlappedCells(e) # {}
          /\ ~Placed(o) /\ o \notin DOMAIN entity_cells

\* ------------------------------------------- Entity and Component claims
\* C14: between Entity operations, a component's back-reference is entity E
\* exactly when the component is in E's component map, and it is empty exactly
\* when the component is attached to no entity; after add_component,
\* replacement, remove_component and destroy().
C14_BackReference ==
    \A c \in Comps :
        /\ \A e \in Owners : comp_entity[c] = e <=> c \in Range(comp_map[e])
        /\ comp_entity[c] = 0 <=> \A e \in Owners : c \notin Range(comp_map[e])

\* a step that is the call named op on an Entity
EntCallStep(op) ==
    /\ ent_call'.op = op
    /\ \/ epc \in {"idle", "in_comp"} /\ UNCHANGED <<epc, eidx>>
       \/ epc = "returned" /\ epc' = "idle"

C15_Step ==
    EntCallStep("add_component") =>
        LET e == ent_call'.e
            c == ent_call'.ret
            old == Attached(comp_map, e, TypeOf(c))
            attach == << <<"store", c>>, <<"set", c>>, <<"on_add", c>> >>
        IN /\ c \in Comps
           /\ old # NoComp =>
                 ent_call'.log = << <<"pop", old>>, <<"on_remove", old>>, <<"unset", old>> >>
                                 \o attach
           /\ old = NoComp => ent_call'.log = attach
           /\ old \notin {NoComp, c} => old \notin Range(comp_map'[e]) /\ comp_entity'[old] = 0
           /\ Attached(comp_map', e, TypeOf(c)) = c
           /\ Cardinality(TypesOf(comp_map'[e])) = Len(comp_map'[e])
           /\ comp_updates'[c] = comp_updates[c] \/ epc = "returned"

\* C15: add_component(c) detaches an attached component of c's type, firing
\* its on_remove, before c is stored and c's on_add fires; afterwards
\* get_component(type of c) is c, the entity has at most one component per
\* type, on_add fired once for the attachment and before any update of c, and
\* the call returns c.
C15_AddComponent == [][C15_Step]_vars

C15_Witness ==
    /\ ent_call.op = "add_component"
    /\ Len(ent_call.log) = 6
    /\ ent_call.log[1][2] # ent_call.ret
    /\ Attached(comp_map, ent_call.e, TypeOf(ent_call.ret)) = ent_call.ret

C16_Step ==
    EntCallStep("destroy") =>
        LET e == ent_call'.e
        IN /\ ~active'[e] /\ marked_for_destruction'[e]
           /\ comp_map'[e] = <<>>
           /\ ent_call'.log = [i \in 1..Len(comp_map[e]) |-> <<"on_remove", comp_map[e][i]>>]
           /\ (ent_call.op = "destroy" /\ ent_call.e = e) =>
                 /\ ent_call'.log = <<>>
                 /\ UNCHANGED <<comp_map, comp_entity, enabled, entvars>>

\* C16: destroy() sets active to false and marked_for_destruction to true,
\* fires on_remove once for each attached component and empties the component
\* map; a second destroy() right after it changes no state and fires no hook.
C16_DestroyIdempotent == [][C16_Step]_vars

C16_Witness ==
    /\ ent_call.op = "destroy" /\ ent_call.again /\ ent_call.log = <<>>
    /\ comp_map[ent_call.e] = <<>>
    /\ \E c \in Comps : comp_entity[c] = ent_call.e

C17_State ==
    /\ \A c \in Comps :
          /\ comp_updates[c] <= 1
          /\ c \notin Range(esnap) => comp_updates[c] = 0
    /\ epc = "returned" =>
          \A c \in Range(esnap) : comp_updates[c] = (IF c \in enabled_at_turn THEN 1 ELSE 0)

C17_Step ==
    /\ (epc \in {"idle", "returned"} /\ epc' = "returned") =>
          /\ ~active[ecur']
          /\ \A c \in Comps : comp_updates'[c] = 0
          /\ UNCHANGED <<comp_map, comp_entity, enabled, entvars>>
    /\ (epc \in {"idle", "returned"} /\ epc' = "pass") =>
          /\ active[ecur']
          /\ esnap' = comp_map[ecur']

\* C17: Entity.update(dt) does nothing on an inactive entity; on an active one
\* it runs update(dt) exactly once on each component that was attached when
\* the call started and is enabled at its turn, whatever is detached or
\* attached during the call, and on no component attached during the call.
C17_UpdateSnapshot == []C17_State /\ [][C17_Step]_vars

C17_Witness ==
    /\ epc = "returned"
    /\ Len(esnap) = 2
    /\ esnap[2] \notin Range(comp_map[ecur])
    /\ comp_updates[esnap[1]] = 1 /\ comp_updates[esnap[2]] = 1
    /\ \E c \in Range(comp_map[ecur]) : c \notin Range(esnap) /\ comp_updates[c] = 0

C29_Step ==
    (epc = "pass" /\ eidx <= Len(esnap) /\ <<epc, eidx>>' # <<epc, eidx>>) =>
        LET c == esnap[eidx]
        IN IF enabled[c]
           THEN epc' = "in_comp" /\ comp_updates'[c] = comp_updates[c] + 1
           ELSE epc' = "pass" /\ eidx' = eidx + 1 /\ comp_updates' = comp_updates

\* C29: Entity.update(dt) re-checks neither attachment nor the entity's active
\* flag inside its loop: at the turn of a snapshot component only its enabled
\* flag decides, so a component detached earlier in the call (remove_component,
\* replacement, or destroy() by a sibling component) is still updated, after
\* its on_remove has fired.
C29_NoRecheck == [][C29_Step]_vars

\* the turn of the second component has come after the first component's
\* update destroyed the entity: its on_remove has fired and it is enabled
C29_Witness ==
    /\ epc = "pass" /\ eidx = 2 /\ Len(esnap) = 2
    /\ comp_updates[esnap[1]] = 1 /\ comp_updates[esnap[2]] = 0
    /\ ent_call.op = "destroy" /\ ent_call.e = ecur
    /\ <<"on_remove", esnap[2]>> \in Range(ent_call.log)
    /\ esnap[2] \notin Range(comp_map[ecur])
    /\ ~active[ecur] /\ marked_for_destruction[ecur]
    /\ enabled[esnap[2]]

\* -------------------------------------------------- ProjectilePool claims
\* a step that is a get_projectile call which returned a projectile
GetReturned ==
    /\ pools # <<>> /\ pools' # pools
    /\ pp_call'.op = "get_projectile" /\ pp_call'.outcome = "returned"

C18_Step ==
    GetReturned =>
        LET k == IF pp_call'.color \in Colors THEN pp_call'.color ELSE DefaultColor
            p == pp_call'.p
        IN /\ p \in Projs /\ p[1] = k
           /\ p[2] \notin Range(pools[k].active)
           /\ p[2] \in Range(pools'[k].active)
           /\ proj'[p].pos = pp_call'.pos
           /\ proj'[p].active
           /\ \A j \in Colors \ {k} :
                 /\ pools'[j].active = pools[j].active
                 /\ pools'[j].inactive = pools[j].inactive

\* C18: get_projectile(x, y, direction, color) borrows from the sub-pool of the
\* colour, or from the 'dark_blue' sub-pool when the colour is no key; the
\* returned projectile is in that sub-pool's active set, is at (x, y) and is
\* active, and no other sub-pool's active or inactive set changes.
C18_GetProjectile == [][C18_Step]_vars

\* a step that is release_projectile(p) on a projectile that is borrowed from
\* its sub-pool
ReleaseBorrowed ==
    /\ pools # <<>>
    /\ pp_call'.op = "release_projectile"
    /\ pp_call'.p \in Projs
    /\ pp_call'.p[2] \in Range(pools[pp_call'.p[1]].active)

C19_Step ==
    ReleaseBorrowed =>
        LET p == pp_call'.p
            k == p[1]
        IN /\ p[2] \in Range(pools'[k].inactive)
           /\ p[2] \notin Range(pools'[k].active)
           /\ ~proj'[p].active
           /\ \A j \in Colors \ {k} :
                 /\ pools'[j].active = pools[j].active
                 /\ pools'[j].inactive = pools[j].inactive

\* C19: release_projectile(p) returns p to the sub-pool named by p's ink
\* colour: a projectile borrowed by get_projectile and passed to
\* release_projectile ends in the inactive set of the sub-pool it was borrowed
\* from, inactive, and every other sub-pool's partition is unchanged.
C19_ReleaseProjectile == [][C19_Step]_vars

\* the projectiles a sub-pool holds, in its inactive or its active set
HeldByPool ==
    {p \in Projs : pools # <<>> /\ p[2] \in Range(pools[p[1]].inactive)
                                              \cup Range(pools[p[1]].active)}

\* C21: no entity is owned by two systems at once: a projectile held by a
\* sub-pool (inactive or active set) is neither in the Entity Manager's
\* pending-add list nor in its table, in any state reached through initialize,
\* get_projectile, release_projectile and EntityManager.update.
C21_NoDualOwnership ==
    \A p \in HeldByPool : p \notin Range(entities_to_add) \cup Range(entities)

C30_Step ==
    /\ (/\ pools # <<>>
        /\ pp_call'.op = "release_projectile"
        /\ pp_call'.p \in Projs
        /\ proj[pp_call'.p].destroyed)
       => UNCHANGED <<pools, proj>>
    /\ \A p \in Projs :
          (/\ pools # <<>>
           /\ proj[p].destroyed
           /\ p[2] \in Range(pools[p[1]].active))
          => (proj'[p].destroyed /\ p[2] \in Range(pools'[p[1]].active))

\* C30: release_projectile(p) on a projectile that no longer has its
\* 'ink_slime' component changes no sub-pool and does not reset p; a borrowed
\* projectile that was destroyed before its release stays in the active set of
\* its sub-pool in every later state.
C30_DestroyedStaysBorrowed == [][C30_Step]_vars

C30_Witness ==
    /\ pp_call.op = "release_projectile" /\ pp_call.outcome = "no_component"
    /\ pp_call.p \in Projs
    /\ proj[pp_call.p].destroyed
    /\ pp_call.p[2] \in Range(pools[pp_call.p[1]].active)
    /\ pp_call.p \notin Range(entities)

\* ---------------------------------------------------- exception claims
C20_State == raised => pc = "raised"

C20_Step ==
    /\ (pc = "in_update" /\ raised') =>
          /\ pc' = "raised"
          /\ UNCHANGED <<emvars, entvars, snapshot, idx, update_count>>
    /\ pc = "raised" => \A e \in Ents : update_count'[e] <= update_count[e]

\* C20: an exception raised by a component's update during
\* EntityManager.update is caught by neither Entity.update nor
\* EntityManager.update: the call ends at that point, and the remaining
\* entities of the snapshot are not updated by it.
C20_ExceptionPropagates == []C20_State /\ [][C20_Step]_vars

C20_Witness ==
    /\ pc = "raised" /\ raised
    /\ idx < Len(snapshot)
    /\ ShouldUpdate(snapshot[idx + 1])
    /\ update_count[snapshot[idx + 1]] = 0
    /\ update_count[snapshot[idx]] = 1

====
